---- MODULE Spec2Model ----
(***************************************************************************)
(* Model of two integration shims of TensorFlow 2.5.0:                     *)
(*   stream_executor/cuda/cublasLt_stub.cc  (GetDsoHandle, LoadSymbol)     *)
(*   core/graph/mkl_graph_util.h            (tensor index mapping, native  *)
(*                                           format flag, MKL op names and *)
(*                                           the MKL kernel-label queries) *)
(* Threads call the functions; a call that has to run the body of a        *)
(* one-time initialisation holds the guard in state "running" for one      *)
(* step, every other call runs to its return in one step.                  *)
(***************************************************************************)
EXTENDS Integers, Sequences, FiniteSets, TLC

(* ------------------------------ bounds --------------------------------- *)
NumThreads == 2
MaxCalls == 3
MaxTensors == 7

Threads == 1..NumThreads

VARIABLES
    pc,                 \* per thread: "idle" or the one-time body it is executing
    pending,            \* per thread: the call being executed
    last,               \* the call that returned in the latest step, with its result
    \* cublasLt_stub.cc
    platform_google,    \* build flag PLATFORM_GOOGLE
    dso_state,          \* initialisation guard of the static local 'handle'
    handle,             \* the static local 'handle' of GetDsoHandle
    dso_loads,          \* number of DsoLoader::GetCublasLtDsoHandle calls
    dso_returned,       \* values GetDsoHandle has returned so far
    calls,              \* per symbol: LoadSymbol calls started
    lookups,            \* per symbol: GetSymbolFromLibrary calls
    \* mkl_graph_util.h
    enable_mkl,         \* build flag ENABLE_MKL
    env,                \* value of TF_ENABLE_MKL_NATIVE_FORMAT
    native_once,        \* absl::once_flag 'once' of NativeFormatEnabled
    native_fmt_enabled, \* static bool native_fmt_enabled
    env_reads,          \* number of ReadBoolFromEnvVar calls
    read_value,         \* what the first ReadBoolFromEnvVar call read and produced
    aborted,            \* TF_CHECK_OK failed: the process is gone
    has_avx512f,        \* port::TestCPUFeature(AVX512F)
    warn_once,          \* absl::once_flag cpu_bfloat16_warn_once_flag
    warnings,           \* number of times the BFloat16 warning was logged
    warn_cause,         \* the call whose BF16UnsupportedWarning() logged it
    \* tensor index mapping
    idx_n, idx_total, idx_data, idx_meta

threadVars == <<pc, pending, last>>
stubVars == <<platform_google, dso_state, handle, dso_loads, dso_returned, calls, lookups>>
nativeVars == <<enable_mkl, env, native_once, native_fmt_enabled, env_reads, read_value, aborted>>
warnVars == <<has_avx512f, warn_once, warnings, warn_cause>>
idxVars == <<idx_n, idx_total, idx_data, idx_meta>>
vars == <<threadVars, stubVars, nativeVars, warnVars, idxVars>>

NoType == "none"
NoCall == [fn |-> "none", op |-> "", T |-> NoType]
NoResult == [fn |-> "none", op |-> "", T |-> NoType, ret |-> FALSE]

Completed(c, r) == [fn |-> c.fn, op |-> c.op, T |-> c.T, ret |-> r]

(* No thread is inside a call. *)
ThreadInit ==
    /\ pc = [t \in Threads |-> "idle"]
    /\ pending = [t \in Threads |-> NoCall]
    /\ last = NoResult

(* ======================= cublasLt_stub.cc ============================== *)
NULL == "nullptr"
LibHandle == "libcublasLt.so"
SymbolNames == {"cublasLtCreate", "cublasLtMatmul"}
\* the symbols the loaded library exports; the other name is not found
LibraryExports == {"cublasLtCreate"}
SymbolAddress(s) == "&" \o s

StubQuiet ==
    /\ platform_google = FALSE
    /\ dso_state = "uninit"
    /\ handle = NULL
    /\ dso_loads = 0
    /\ dso_returned = {}
    /\ calls = [s \in SymbolNames |-> 0]
    /\ lookups = [s \in SymbolNames |-> 0]

StubInit ==
    /\ platform_google \in BOOLEAN
    /\ dso_state = "uninit"
    /\ handle = NULL
    /\ dso_loads = 0
    /\ dso_returned = {}
    /\ calls = [s \in SymbolNames |-> 0]
    /\ lookups = [s \in SymbolNames |-> 0]

notStub == <<nativeVars, warnVars, idxVars>>

TotalCalls == calls["cublasLtCreate"] + calls["cublasLtMatmul"]

(* Env::GetSymbolFromLibrary(handle, name, &symbol): the address on        *)
(* success; on failure 'symbol' keeps the nullptr it was initialised with. *)
GetSymbolFromLibrary(h, s) == IF s \in LibraryExports THEN SymbolAddress(s) ELSE NULL

(* LoadSymbol, from the point where GetDsoHandle() has returned h.         *)
LoadSymbolNoHandleCheck(t, h) ==
    LET s == pending[t].op IN
    /\ lookups' = [lookups EXCEPT ![s] = @ + 1]
    /\ last' = Completed(pending[t], GetSymbolFromLibrary(h, s))
    /\ pc' = [pc EXCEPT ![t] = "idle"]
    /\ pending' = [pending EXCEPT ![t] = NoCall]

LoadSymbolRest(t, h) ==
    LET s == pending[t].op IN
    /\ IF h # NULL
         THEN /\ lookups' = [lookups EXCEPT ![s] = @ + 1]
              /\ last' = Completed(pending[t], GetSymbolFromLibrary(h, s))
         ELSE /\ lookups' = lookups
              /\ last' = Completed(pending[t], NULL)
    /\ pc' = [pc EXCEPT ![t] = "idle"]
    /\ pending' = [pending EXCEPT ![t] = NoCall]

(* A thread calls LoadSymbol<T>(symbol_name) and reaches GetDsoHandle().   *)
LoadSymbol(t, s) ==
    /\ pc[t] = "idle"
    /\ TotalCalls < MaxCalls
    /\ calls' = [calls EXCEPT ![s] = @ + 1]
    /\ pc' = [pc EXCEPT ![t] = "GetDsoHandle"]
    /\ pending' = [pending EXCEPT ![t] = [fn |-> "LoadSymbol", op |-> s, T |-> NoType]]
    /\ last' = NoResult
    /\ UNCHANGED <<platform_google, dso_state, handle, dso_loads, dso_returned, lookups, notStub>>

(* #ifdef PLATFORM_GOOGLE: GetDsoHandle returns nullptr.                    *)
GetDsoHandleGoogle(t) ==
    /\ pc[t] = "GetDsoHandle"
    /\ platform_google
    /\ dso_returned' = dso_returned \cup {NULL}
    /\ LoadSymbolRest(t, NULL)
    /\ UNCHANGED <<platform_google, dso_state, handle, dso_loads, calls, notStub>>

(* First execution of 'static auto handle = ...': this thread runs the     *)
(* initialiser, the others wait until it is complete.                      *)
GetDsoHandleInitUnguarded(t) ==
    /\ pc[t] = "GetDsoHandle"
    /\ ~platform_google
    /\ dso_state # "running"
    /\ dso_state' = "running"
    /\ pc' = [pc EXCEPT ![t] = "DsoLoad"]
    /\ last' = NoResult
    /\ UNCHANGED <<pending, platform_google, handle, dso_loads, dso_returned, calls, lookups, notStub>>

GetDsoHandleInit(t) ==
    /\ pc[t] = "GetDsoHandle"
    /\ ~platform_google
    /\ dso_state = "uninit"
    /\ dso_state' = "running"
    /\ pc' = [pc EXCEPT ![t] = "DsoLoad"]
    /\ last' = NoResult
    /\ UNCHANGED <<pending, platform_google, handle, dso_loads, dso_returned, calls, lookups, notStub>>

(* The initialiser lambda: DsoLoader::GetCublasLtDsoHandle() succeeds or   *)
(* fails; then GetDsoHandle returns the value and LoadSymbol goes on.      *)
DsoLoad(t) ==
    /\ pc[t] = "DsoLoad"
    /\ \E ok \in BOOLEAN :
         LET h == IF ok THEN LibHandle ELSE NULL IN
         /\ dso_loads' = dso_loads + 1
         /\ handle' = h
         /\ dso_state' = "done"
         /\ dso_returned' = dso_returned \cup {h}
         /\ LoadSymbolRest(t, h)
    /\ UNCHANGED <<platform_google, calls, notStub>>

(* 'handle' is initialised already: GetDsoHandle returns it.               *)
GetDsoHandleReturn(t) ==
    /\ pc[t] = "GetDsoHandle"
    /\ ~platform_google
    /\ dso_state = "done"
    /\ dso_returned' = dso_returned \cup {handle}
    /\ LoadSymbolRest(t, handle)
    /\ UNCHANGED <<platform_google, dso_state, handle, dso_loads, calls, notStub>>

(* ======================== mkl_graph_util.h ============================= *)
(* ---- tensor ordering -------------------------------------------------- *)
TENSORS_INTERLEAVED == "TENSORS_INTERLEAVED"
TENSORS_CONTIGUOUS == "TENSORS_CONTIGUOUS"
kTensorOrdering == TENSORS_CONTIGUOUS

DataIndexToMetaDataIndexInterleaved(n, total_tensors) == n + 1

DataIndexToMetaDataIndex(n, total_tensors) ==
    IF kTensorOrdering = TENSORS_INTERLEAVED
      THEN n + 1
      ELSE n + (total_tensors \div 2)

GetTensorDataIndex(n, total_tensors) ==
    IF kTensorOrdering = TENSORS_INTERLEAVED
      THEN 2 * n
      ELSE n

GetTensorMetaDataIndex(n, total_tensors) ==
    LET tidx == GetTensorDataIndex(n, total_tensors)
    IN  DataIndexToMetaDataIndex(tidx, total_tensors)

IdxQuiet ==
    /\ idx_n = 0
    /\ idx_total = 0
    /\ idx_data = 0
    /\ idx_meta = 0

IdxInit ==
    /\ idx_total = 0
    /\ idx_n = 0
    /\ idx_data = GetTensorDataIndex(0, 0)
    /\ idx_meta = GetTensorMetaDataIndex(0, 0)

(* A kernel asks for the positions of its n-th tensor among total tensors. *)
TensorIndexes(n, total) ==
    /\ idx_n' = n
    /\ idx_total' = total
    /\ idx_data' = GetTensorDataIndex(n, total)
    /\ idx_meta' = GetTensorMetaDataIndex(n, total)
    /\ UNCHANGED <<threadVars, stubVars, nativeVars, warnVars>>

(* ---- data types and their names --------------------------------------- *)
DT_FLOAT == "float"
DT_DOUBLE == "double"
DT_COMPLEX64 == "complex64"
DT_COMPLEX128 == "complex128"
DT_BFLOAT16 == "bfloat16"
DT_QINT8 == "qint8"
DT_QUINT8 == "quint8"
DT_QINT32 == "qint32"
DT_INT32 == "int32"

DataTypes == {DT_FLOAT, DT_DOUBLE, DT_COMPLEX64, DT_COMPLEX128, DT_BFLOAT16,
              DT_QINT8, DT_QUINT8, DT_QINT32}

(* DataType_Name: the enumerator's name, as the kernel summary prints it.  *)
DataType_Name(T) ==
    CASE T = DT_FLOAT -> "DT_FLOAT"
      [] T = DT_DOUBLE -> "DT_DOUBLE"
      [] T = DT_COMPLEX64 -> "DT_COMPLEX64"
      [] T = DT_COMPLEX128 -> "DT_COMPLEX128"
      [] T = DT_BFLOAT16 -> "DT_BFLOAT16"
      [] T = DT_QINT8 -> "DT_QINT8"
      [] T = DT_QUINT8 -> "DT_QUINT8"
      [] T = DT_QINT32 -> "DT_QINT32"
      [] T = DT_INT32 -> "DT_INT32"

(* ---- std::string ------------------------------------------------------ *)
(* kernel.find(pattern) != string::npos *)
Find(str, pattern) ==
    \E i \in 1..(Len(str) - Len(pattern) + 1) :
        SubSeq(str, i, i + Len(pattern) - 1) = pattern

RECURSIVE Join(_, _)
Join(strs, sep) ==
    IF strs = <<>> THEN ""
    ELSE IF Len(strs) = 1 THEN strs[1]
    ELSE strs[1] \o sep \o Join(Tail(strs), sep)

(* ---- kernel registrations --------------------------------------------- *)
kMklLayoutDependentOpLabel == "MklLayoutDependentOp"
kMklLayoutDependentOpLabelPattern == "label='MklLayoutDependentOp'"
kMklNameChangeOpLabel == "MklNameChangeOp"
kMklNameChangeOpLabelPattern == "label='MklNameChangeOp'"
kMklQuantizedOpLabel == "QuantizedMklOp"
kMklQuantizedOpLabelPattern == "label='QuantizedMklOp'"
kMklOpPrefix == "_Mkl"
kMklEagerOpPrefix == "_MklEager"
kMklNativeOpPrefix == "_MklNative"

Kernel(label, constraints) == [device |-> "CPU", label |-> label, constraints |-> constraints]
TypeIn(attr, types) == [name |-> attr, types |-> types]
OneType(label, T) == Kernel(label, <<TypeIn("T", <<T>>)>>)

(* The kernels registered in the process, per op name.                     *)
RegisteredKernels(op) ==
    CASE op = "_MklMatMul" ->
           <<OneType(kMklNameChangeOpLabel, DT_COMPLEX128),
             OneType(kMklNameChangeOpLabel, DT_COMPLEX64),
             OneType(kMklNameChangeOpLabel, DT_DOUBLE),
             OneType(kMklNameChangeOpLabel, DT_FLOAT),
             OneType(kMklNameChangeOpLabel, DT_BFLOAT16)>>
      [] op = "_MklConv2D" ->
           <<OneType(kMklLayoutDependentOpLabel, DT_FLOAT),
             OneType(kMklLayoutDependentOpLabel, DT_BFLOAT16)>>
      [] op = "_MklAdd" ->
           <<OneType(kMklLayoutDependentOpLabel, DT_FLOAT),
             OneType(kMklLayoutDependentOpLabel, DT_BFLOAT16)>>
      [] op = "_MklNativeAdd" ->
           <<OneType(kMklNameChangeOpLabel, DT_FLOAT),
             OneType(kMklNameChangeOpLabel, DT_BFLOAT16)>>
      [] op = "_MklQuantizedConv2D" ->
           <<Kernel(kMklQuantizedOpLabel,
                    <<TypeIn("Tinput", <<DT_QUINT8>>), TypeIn("Tfilter", <<DT_QINT8>>),
                      TypeIn("out_type", <<DT_QINT32>>)>>)>>
      [] op = "_MklTranspose" ->
           <<Kernel(kMklNameChangeOpLabel,
                    <<TypeIn("Tperm", <<DT_INT32>>), TypeIn("T", <<DT_FLOAT>>)>>)>>
      [] op = "_MklNativeCast" ->
           <<OneType(kMklNameChangeOpLabel, DT_QINT8),
             Kernel(kMklNameChangeOpLabel, <<TypeIn("T", <<DT_FLOAT, DT_DOUBLE>>)>>)>>
      [] op = "Conv2D" ->
           <<OneType("", DT_FLOAT), OneType("", DT_BFLOAT16)>>
      [] OTHER -> <<>>

OpNames == {"_MklMatMul", "_MklConv2D", "_MklAdd", "_MklNativeAdd", "_MklQuantizedConv2D",
            "_MklTranspose", "_MklNativeCast", "Conv2D", "NoSuchOp"}

RECURSIVE SummarizeConstraints(_)
SummarizeConstraints(cs) ==
    IF cs = <<>> THEN ""
    ELSE "; " \o cs[1].name \o " in ["
         \o Join([i \in 1..Len(cs[1].types) |-> DataType_Name(cs[1].types[i])], ", ")
         \o "]" \o SummarizeConstraints(Tail(cs))

SummarizeKernel(k) ==
    "  device='" \o k.device \o "'"
    \o (IF k.label # "" THEN "; label='" \o k.label \o "'" ELSE "")
    \o SummarizeConstraints(k.constraints) \o "\n"

RECURSIVE SummarizeKernels(_)
SummarizeKernels(ks) ==
    IF ks = <<>> THEN "" ELSE SummarizeKernel(ks[1]) \o SummarizeKernels(Tail(ks))

(* KernelsRegisteredForOp(op_name): one line per registered kernel.        *)
KernelsRegisteredForOp(op_name) ==
    IF RegisteredKernels(op_name) = <<>>
      THEN "  <no registered kernels>\n"
      ELSE SummarizeKernels(RegisteredKernels(op_name))

(* ---- native format flag ----------------------------------------------- *)
EnvValues == {"unset", "0", "1", "yes"}

(* ReadBoolFromEnvVar(name, default_value, &value): the default when the   *)
(* variable is unset, the parsed value for 0/false and 1/true, an error    *)
(* status (and the default) for anything else.                             *)
ReadBoolFromEnvVar(value, default_value) ==
    CASE value = "unset" -> [ok |-> TRUE, value |-> default_value]
      [] value = "0" \/ value = "false" -> [ok |-> TRUE, value |-> FALSE]
      [] value = "1" \/ value = "true" -> [ok |-> TRUE, value |-> TRUE]
      [] OTHER -> [ok |-> FALSE, value |-> default_value]

NoRead == [ok |-> FALSE, value |-> FALSE, env |-> "none"]

(* What NativeFormatEnabled() returns once call_once has let it through.   *)
NativeFormatEnabled(enable, flag) == IF ~enable THEN TRUE ELSE flag

(* ---- MKL op names ------------------------------------------------------ *)
GetMklNativeOpNameNoTranspose(name) ==
    LET result == (name = "ConjugateTranspose" \/ name = "BatchMatMul"
                   \/ name = "BatchMatMulV2" \/ name = "MatMul")
    IN  IF result THEN kMklOpPrefix \o name ELSE kMklNativeOpPrefix \o name

GetMklNativeOpName(name) ==
    LET result == (name = "ConjugateTranspose" \/ name = "BatchMatMul"
                   \/ name = "BatchMatMulV2" \/ name = "MatMul" \/ name = "Transpose")
    IN  IF result THEN kMklOpPrefix \o name ELSE kMklNativeOpPrefix \o name

(* native: the value NativeFormatEnabled() returned *)
GetMklOpName(name, native) ==
    IF ~native THEN kMklOpPrefix \o name ELSE GetMklNativeOpName(name)

GetMklEagerOpName(name) == kMklEagerOpPrefix \o name

(* ---- MKL kernel-label queries ----------------------------------------- *)
(* Each returns [ret |-> the value returned,                               *)
(*               warn |-> BF16UnsupportedWarning() was called,             *)
(*               nfe |-> NativeFormatEnabled() was called].                *)
Ret(r, w, n) == [ret |-> r, warn |-> w, nfe |-> n]

IsMklLayoutDependentOp(op_name, T, avx) ==
    LET kernel == KernelsRegisteredForOp(op_name) IN
    IF Find(kernel, kMklQuantizedOpLabelPattern)
      THEN Ret(T = DT_QUINT8 \/ T = DT_QINT8 \/ T = DT_QINT32, FALSE, FALSE)
    ELSE IF Find(kernel, kMklLayoutDependentOpLabelPattern)
      THEN IF T = DT_FLOAT THEN Ret(TRUE, FALSE, FALSE)
           ELSE IF T = DT_BFLOAT16
             THEN IF avx THEN Ret(TRUE, FALSE, FALSE) ELSE Ret(FALSE, TRUE, FALSE)
           ELSE Ret(FALSE, FALSE, FALSE)
    ELSE Ret(FALSE, FALSE, FALSE)

IsMklNameChangeOpLabelOnly(op_name, T, avx) ==
    LET kernel == KernelsRegisteredForOp(op_name)
        search_string == kMklNameChangeOpLabelPattern
    IN  IF Find(kernel, search_string)
          THEN IF T = DT_COMPLEX128 \/ T = DT_COMPLEX64 \/ T = DT_DOUBLE \/ T = DT_FLOAT
                 THEN Ret(TRUE, FALSE, FALSE)
               ELSE IF T = DT_BFLOAT16
                 THEN IF avx THEN Ret(TRUE, FALSE, FALSE) ELSE Ret(FALSE, TRUE, FALSE)
               ELSE Ret(FALSE, FALSE, FALSE)
          ELSE Ret(FALSE, FALSE, FALSE)

IsMklNameChangeOp(op_name, T, avx) ==
    LET kernel == KernelsRegisteredForOp(op_name)
        search_string == kMklNameChangeOpLabelPattern \o ";" \o " T in ["
                         \o DataType_Name(T) \o "]"
    IN  IF Find(kernel, search_string)
          THEN IF T = DT_COMPLEX128 \/ T = DT_COMPLEX64 \/ T = DT_DOUBLE \/ T = DT_FLOAT
                 THEN Ret(TRUE, FALSE, FALSE)
               ELSE IF T = DT_BFLOAT16
                 THEN IF avx THEN Ret(TRUE, FALSE, FALSE) ELSE Ret(FALSE, TRUE, FALSE)
               ELSE Ret(FALSE, FALSE, FALSE)
          ELSE Ret(FALSE, FALSE, FALSE)

IsMklOp(op_name, T, avx) ==
    LET l == IsMklLayoutDependentOp(op_name, T, avx) IN
    IF l.ret THEN l
    ELSE LET n == IsMklNameChangeOp(op_name, T, avx)
         IN  Ret(n.ret, l.warn \/ n.warn, FALSE)

IsMklElementWiseOpNoIsMklOp(op_name, T, avx, native) ==
    Ret(op_name = GetMklOpName("Add", native) \/ op_name = GetMklOpName("AddV2", native)
        \/ op_name = GetMklOpName("Sub", native) \/ op_name = GetMklOpName("Mul", native)
        \/ op_name = GetMklOpName("Maximum", native)
        \/ op_name = GetMklOpName("SquaredDifference", native), FALSE, TRUE)

IsMklElementWiseOp(op_name, T, avx, native) ==
    LET m == IsMklOp(op_name, T, avx) IN
    IF ~m.ret THEN Ret(FALSE, m.warn, FALSE)
    ELSE LET result == (op_name = GetMklOpName("Add", native)
                        \/ op_name = GetMklOpName("AddV2", native)
                        \/ op_name = GetMklOpName("Sub", native)
                        \/ op_name = GetMklOpName("Mul", native)
                        \/ op_name = GetMklOpName("Maximum", native)
                        \/ op_name = GetMklOpName("SquaredDifference", native))
         IN  Ret(result, FALSE, TRUE)

(* ---- calls and their execution ---------------------------------------- *)
BaseNames == {"ConjugateTranspose", "BatchMatMul", "BatchMatMulV2", "MatMul", "Transpose",
              "Add", "Conv2D", "BatchMatMulV3", "Transposed", ""}
ElementWiseOpNames == {"_MklAdd", "_MklNativeAdd", "_MklMatMul", "_MklConv2D", "NoSuchOp"}
ElementWiseTypes == {DT_FLOAT, DT_BFLOAT16, DT_DOUBLE}

Call(fn, op, T) == [fn |-> fn, op |-> op, T |-> T]

NativeCalls ==
    {Call("NativeFormatEnabled", "", NoType)}
    \cup {Call(fn, name, NoType) :
            fn \in {"GetMklNativeOpName", "GetMklOpName", "GetMklEagerOpName"},
            name \in BaseNames}
RegistryCalls ==
    {Call(fn, op, T) : fn \in {"IsMklLayoutDependentOp", "IsMklNameChangeOp"},
                       op \in OpNames, T \in DataTypes}
ElementWiseCalls ==
    {Call(fn, op, T) : fn \in {"IsMklOp", "IsMklElementWiseOp"},
                       op \in ElementWiseOpNames, T \in ElementWiseTypes}
AllCalls == NativeCalls \cup RegistryCalls \cup ElementWiseCalls

(* The call c executed on a CPU with/without AVX512F, NativeFormatEnabled() *)
(* returning 'native' wherever it is called.                               *)
Run(c, avx, native) ==
    CASE c.fn = "NativeFormatEnabled" -> Ret(native, FALSE, TRUE)
      [] c.fn = "GetMklNativeOpName" -> Ret(GetMklNativeOpName(c.op), FALSE, FALSE)
      [] c.fn = "GetMklOpName" -> Ret(GetMklOpName(c.op, native), FALSE, TRUE)
      [] c.fn = "GetMklEagerOpName" -> Ret(GetMklEagerOpName(c.op), FALSE, FALSE)
      [] c.fn = "IsMklLayoutDependentOp" -> IsMklLayoutDependentOp(c.op, c.T, avx)
      [] c.fn = "IsMklNameChangeOp" -> IsMklNameChangeOp(c.op, c.T, avx)
      [] c.fn = "IsMklOp" -> IsMklOp(c.op, c.T, avx)
      [] c.fn = "IsMklElementWiseOp" -> IsMklElementWiseOp(c.op, c.T, avx, native)

(* Run, tabulated once for the calls the threads make. *)
RunTable == [c \in AllCalls, avx \in BOOLEAN, native \in BOOLEAN |-> Run(c, avx, native)] @@ <<>>

(* absl::call_once(flag, fn): the caller that finds the flag untouched     *)
(* runs fn, a caller that finds fn running waits, a caller that finds it   *)
(* complete goes on.                                                       *)
CallOnceEveryTime(flag) == flag # "running"
CallOnceRuns(flag) == flag = "uninit"

CallOnceNoWait(flag) == flag # "uninit"
CallOncePasses(flag) == flag = "done"

notMkl == <<stubVars, idxVars>>

(* The process before any call; the build flags, the environment variable  *)
(* and the CPU are drawn from the given sets.                              *)
MklInit(enables, envs, cpus) ==
    /\ enable_mkl \in enables
    /\ env \in envs
    /\ native_once = "uninit"
    /\ native_fmt_enabled = TRUE
    /\ env_reads = 0
    /\ read_value = NoRead
    /\ aborted = FALSE
    /\ has_avx512f \in cpus
    /\ warn_once = "uninit"
    /\ warnings = 0
    /\ warn_cause = NoCall

MklQuiet == MklInit({TRUE}, {"unset"}, {FALSE})

(* Thread t makes the call c.  It runs to its return unless it has to run  *)
(* the body of one of the two call_once guards first.  While another       *)
(* thread runs the body of a guard the call needs, the call waits inside   *)
(* call_once: it has changed nothing yet and the step is not enabled.      *)
Invoke(t, c) ==
    /\ pc[t] = "idle"
    /\ ~aborted
    /\ LET r == RunTable[c, has_avx512f, NativeFormatEnabled(enable_mkl, native_fmt_enabled)] IN
       \/ /\ r.warn
          /\ CallOnceRuns(warn_once)
          /\ warn_once' = "running"
          /\ pc' = [pc EXCEPT ![t] = "BF16UnsupportedWarning"]
          /\ pending' = [pending EXCEPT ![t] = c]
          /\ last' = NoResult
          /\ UNCHANGED native_once
       \/ /\ r.nfe /\ enable_mkl
          /\ CallOnceRuns(native_once)
          /\ native_once' = "running"
          /\ pc' = [pc EXCEPT ![t] = "NativeFormatEnabled"]
          /\ pending' = [pending EXCEPT ![t] = c]
          /\ last' = NoResult
          /\ UNCHANGED warn_once
       \/ /\ r.warn => CallOncePasses(warn_once)
          /\ (r.nfe /\ enable_mkl) => CallOncePasses(native_once)
          /\ last' = Completed(c, r.ret)
          /\ UNCHANGED <<pc, pending, native_once, warn_once>>
    /\ UNCHANGED <<enable_mkl, env, native_fmt_enabled, env_reads, read_value, aborted,
                   has_avx512f, warnings, warn_cause, notMkl>>

(* The body of call_once in BF16UnsupportedWarning: LOG(ERROR); then the   *)
(* query that called it returns.                                           *)
LogBF16Warning(t) ==
    /\ pc[t] = "BF16UnsupportedWarning"
    /\ warnings' = warnings + 1
    /\ warn_cause' = pending[t]
    /\ warn_once' = "done"
    /\ last' = Completed(pending[t],
                         RunTable[pending[t], has_avx512f,
                                  NativeFormatEnabled(enable_mkl, native_fmt_enabled)].ret)
    /\ pc' = [pc EXCEPT ![t] = "idle"]
    /\ pending' = [pending EXCEPT ![t] = NoCall]
    /\ UNCHANGED <<nativeVars, has_avx512f, notMkl>>

(* The body of call_once in NativeFormatEnabled: ReadBoolFromEnvVar under  *)
(* TF_CHECK_OK; then NativeFormatEnabled returns the flag and its caller   *)
(* goes on to its own return.                                              *)
ReadNativeFormatEnv(t) ==
    /\ pc[t] = "NativeFormatEnabled"
    /\ ~aborted
    /\ LET r == ReadBoolFromEnvVar(env, TRUE) IN
       /\ env_reads' = env_reads + 1
       /\ read_value' = IF env_reads = 0
                          THEN [ok |-> r.ok, value |-> r.value, env |-> env]
                          ELSE read_value
       /\ native_fmt_enabled' = r.value
       /\ IF r.ok
            THEN /\ native_once' = "done"
                 /\ last' = Completed(pending[t], RunTable[pending[t], has_avx512f, r.value].ret)
                 /\ pc' = [pc EXCEPT ![t] = "idle"]
                 /\ pending' = [pending EXCEPT ![t] = NoCall]
                 /\ aborted' = FALSE
            ELSE /\ aborted' = TRUE
                 /\ last' = NoResult
                 /\ UNCHANGED <<native_once, pc, pending>>
    /\ UNCHANGED <<enable_mkl, env, warnVars, notMkl>>

(* The user changes TF_ENABLE_MKL_NATIVE_FORMAT while the process runs.    *)
SetEnv(v) ==
    /\ ~aborted
    /\ v # env
    /\ env' = v
    /\ last' = NoResult
    /\ UNCHANGED <<pc, pending, enable_mkl, native_once, native_fmt_enabled, env_reads,
                   read_value, aborted, warnVars, notMkl>>

(* ---- one action per function ------------------------------------------ *)
NativeFormatEnabledCall(t) ==
    /\ pc[t] = "idle"
    /\ Invoke(t, Call("NativeFormatEnabled", "", NoType))
GetMklNativeOpNameCall(t) ==
    /\ pc[t] = "idle"
    /\ \E name \in BaseNames : Invoke(t, Call("GetMklNativeOpName", name, NoType))
GetMklOpNameCall(t) ==
    /\ pc[t] = "idle"
    /\ \E name \in BaseNames : Invoke(t, Call("GetMklOpName", name, NoType))
GetMklEagerOpNameCall(t) ==
    /\ pc[t] = "idle"
    /\ \E name \in BaseNames : Invoke(t, Call("GetMklEagerOpName", name, NoType))
IsMklLayoutDependentOpCall(t) ==
    /\ pc[t] = "idle"
    /\ \E op \in OpNames, T \in DataTypes : Invoke(t, Call("IsMklLayoutDependentOp", op, T))
IsMklNameChangeOpCall(t) ==
    /\ pc[t] = "idle"
    /\ \E op \in OpNames, T \in DataTypes : Invoke(t, Call("IsMklNameChangeOp", op, T))
IsMklOpCall(t) ==
    /\ pc[t] = "idle"
    /\ \E op \in ElementWiseOpNames, T \in ElementWiseTypes : Invoke(t, Call("IsMklOp", op, T))
IsMklElementWiseOpCall(t) ==
    /\ pc[t] = "idle"
    /\ \E op \in ElementWiseOpNames, T \in ElementWiseTypes :
          Invoke(t, Call("IsMklElementWiseOp", op, T))

(* ========================= specifications ============================== *)
StubSpecInit == ThreadInit /\ StubInit /\ MklQuiet /\ IdxQuiet
StubNext ==
    \/ \E t \in Threads, s \in SymbolNames : LoadSymbol(t, s)
    \/ \E t \in Threads : GetDsoHandleGoogle(t)
    \/ \E t \in Threads : GetDsoHandleInit(t)
    \/ \E t \in Threads : DsoLoad(t)
    \/ \E t \in Threads : GetDsoHandleReturn(t)
StubSpec == StubSpecInit /\ [][StubNext]_vars

IndexSpecInit == ThreadInit /\ StubQuiet /\ MklQuiet /\ IdxInit
IndexNext == \E total \in 0..(2 * MaxTensors), n \in 0..MaxTensors : TensorIndexes(n, total)
IndexSpec == IndexSpecInit /\ [][IndexNext]_vars

NativeSpecInit == ThreadInit /\ StubQuiet /\ MklInit(BOOLEAN, EnvValues, {FALSE}) /\ IdxQuiet
NativeNext ==
    \/ \E t \in Threads : NativeFormatEnabledCall(t)
    \/ \E t \in Threads : GetMklNativeOpNameCall(t)
    \/ \E t \in Threads : GetMklOpNameCall(t)
    \/ \E t \in Threads : GetMklEagerOpNameCall(t)
    \/ \E t \in Threads : ReadNativeFormatEnv(t)
    \/ \E v \in EnvValues : SetEnv(v)
NativeSpec == NativeSpecInit /\ [][NativeNext]_vars

RegistrySpecInit == ThreadInit /\ StubQuiet /\ MklInit({TRUE}, {"unset"}, BOOLEAN) /\ IdxQuiet
RegistryNext ==
    \/ \E t \in Threads : IsMklLayoutDependentOpCall(t)
    \/ \E t \in Threads : IsMklNameChangeOpCall(t)
    \/ \E t \in Threads : LogBF16Warning(t)
RegistrySpec == RegistrySpecInit /\ [][RegistryNext]_vars

ElementWiseSpecInit ==
    ThreadInit /\ StubQuiet /\ MklInit({TRUE}, {"unset", "0"}, BOOLEAN) /\ IdxQuiet
ElementWiseNext ==
    \/ \E t \in Threads : IsMklOpCall(t)
    \/ \E t \in Threads : IsMklElementWiseOpCall(t)
    \/ \E t \in Threads : LogBF16Warning(t)
    \/ \E t \in Threads : ReadNativeFormatEnv(t)
ElementWiseSpec == ElementWiseSpecInit /\ [][ElementWiseNext]_vars

(* ============================= claims ================================== *)
AllIdle == \A t \in Threads : pc[t] = "idle"

(* C1, as stated: over any sequence of LoadSymbol calls for one symbol     *)
(* name, GetSymbolFromLibrary is performed at most once for that symbol.   *)
C1_LookupAtMostOncePerSymbol == \A s \in SymbolNames : lookups[s] <= 1

(* C1, amended: the one-time guard covers the DSO load only, which is      *)
(* attempted at most once; LoadSymbol has no guard of its own, so every    *)
(* LoadSymbol call performs exactly one lookup of its symbol when the      *)
(* handle is non-null and none when it is null.                            *)
C1_OneLookupPerLoadSymbolCall ==
    /\ dso_loads <= 1
    /\ \A s \in SymbolNames : lookups[s] <= calls[s]
    /\ AllIdle => \A s \in SymbolNames :
                     lookups[s] = IF handle # NULL THEN calls[s] ELSE 0

C1_Witness ==
    /\ AllIdle
    /\ dso_loads = 1
    /\ \E s \in SymbolNames : calls[s] = 2 /\ lookups[s] = 2

(* C2: GetDsoHandle returns the DSO handle or null; the load is attempted  *)
(* at most once under any interleaving; every call returns the same value; *)
(* after a failed load no call retries it and LoadSymbol returns null for  *)
(* every symbol without a lookup.                                          *)
C2_DsoLoadAttemptedOnce ==
    /\ dso_loads <= 1
    /\ dso_returned \subseteq {NULL, LibHandle}
    /\ Cardinality(dso_returned) <= 1
    /\ LibHandle \in dso_returned => (dso_loads = 1 /\ ~platform_google)
    /\ platform_google => dso_loads = 0
    /\ NULL \in dso_returned =>
          /\ \A s \in SymbolNames : lookups[s] = 0
          /\ last.fn = "LoadSymbol" => last.ret = NULL

C2_Witness ==
    /\ AllIdle
    /\ ~platform_google
    /\ dso_loads = 1
    /\ dso_returned = {NULL}
    /\ TotalCalls >= 2
    /\ last.fn = "LoadSymbol" /\ last.op \in LibraryExports /\ last.ret = NULL

(* The mode NativeFormatEnabled() reports once the variable has been read. *)
NativeMode == ~enable_mkl \/ read_value.value

C4_ContiguousIndexes ==
    (kTensorOrdering = TENSORS_CONTIGUOUS /\ idx_total % 2 = 0 /\ idx_n < idx_total \div 2) =>
        LET N == idx_total \div 2
            data == {GetTensorDataIndex(n, idx_total) : n \in 0..(N - 1)}
            meta == {GetTensorMetaDataIndex(n, idx_total) : n \in 0..(N - 1)}
        IN  /\ idx_data = idx_n
            /\ idx_meta = idx_n + N
            /\ data \cap meta = {}
            /\ Cardinality(data) = N
            /\ Cardinality(meta) = N
            /\ data \cup meta = 0..(2 * N - 1)

C4_Witness == idx_total = 6 /\ idx_n = 2 /\ idx_data = 2 /\ idx_meta = 5

(* C5: GetMklOpName(name) is "_Mkl" + name when native format mode is      *)
(* disabled; when it is enabled it is "_Mkl" + name for the five names     *)
(* ConjugateTranspose, BatchMatMul, BatchMatMulV2, MatMul, Transpose and   *)
(* "_MklNative" + name for any other; GetMklEagerOpName(name) is           *)
(* "_MklEager" + name.                                                     *)
C5_MklOpNames ==
    /\ last.fn = "GetMklOpName" =>
          last.ret = IF ~NativeMode THEN "_Mkl" \o last.op
                     ELSE IF last.op \in {"ConjugateTranspose", "BatchMatMul", "BatchMatMulV2",
                                          "MatMul", "Transpose"}
                       THEN "_Mkl" \o last.op
                     ELSE "_MklNative" \o last.op
    /\ last.fn = "GetMklEagerOpName" => last.ret = "_MklEager" \o last.op

C5_Witness ==
    /\ last.fn = "GetMklOpName"
    /\ last.op = "Transpose"
    /\ enable_mkl /\ read_value.value
    /\ last.ret = "_MklTranspose"

(* Some kernel registered for op carries the label. *)
HasLabel(op, label) ==
    \E i \in 1..Len(RegisteredKernels(op)) : RegisteredKernels(op)[i].label = label

(* Some kernel registered for op carries the MklNameChangeOp label and is  *)
(* registered for exactly the type T.                                      *)
NameChangeKernelFor(op, T) ==
    \E i \in 1..Len(RegisteredKernels(op)) :
        LET k == RegisteredKernels(op)[i] IN
        /\ k.label = "MklNameChangeOp"
        /\ k.constraints # <<>>
        /\ k.constraints[1] = [name |-> "T", types |-> <<T>>]

(* C6, as stated: IsMklLayoutDependentOp returns true for an op with       *)
(* QuantizedMklOp kernels only if T is QUINT8 or QINT8, for an op with     *)
(* MklLayoutDependentOp kernels only if T is FLOAT or BFLOAT16, and never  *)
(* for an op with neither label.                                           *)
C6_LayoutDependentTypes ==
    (last.fn = "IsMklLayoutDependentOp" /\ last.ret = TRUE) =>
        /\ HasLabel(last.op, "QuantizedMklOp") => last.T \in {DT_QUINT8, DT_QINT8}
        /\ HasLabel(last.op, "MklLayoutDependentOp") => last.T \in {DT_FLOAT, DT_BFLOAT16}
        /\ HasLabel(last.op, "QuantizedMklOp") \/ HasLabel(last.op, "MklLayoutDependentOp")

C8_ElementWiseOp ==
    last.fn = "IsMklElementWiseOp" =>
        last.ret =
           (/\ \/ IsMklLayoutDependentOp(last.op, last.T, has_avx512f).ret
               \/ IsMklNameChangeOp(last.op, last.T, has_avx512f).ret
            /\ last.op \in (IF NativeMode
                              THEN {"_MklNativeAdd", "_MklNativeAddV2", "_MklNativeSub",
                                    "_MklNativeMul", "_MklNativeMaximum",
                                    "_MklNativeSquaredDifference"}
                              ELSE {"_MklAdd", "_MklAddV2", "_MklSub", "_MklMul",
                                    "_MklMaximum", "_MklSquaredDifference"}))

C8_Witness ==
    /\ last.fn = "IsMklElementWiseOp"
    /\ last.op = "_MklAdd"
    /\ last.T = DT_FLOAT
    /\ read_value.env = "0"
    /\ last.ret = TRUE

(* The BFLOAT16 query c found a registered MKL kernel. *)
MatchedMklKernel(c) ==
    \/ /\ c.fn = "IsMklLayoutDependentOp"
       /\ HasLabel(c.op, "MklLayoutDependentOp")
       /\ ~HasLabel(c.op, "QuantizedMklOp")
    \/ /\ c.fn = "IsMklNameChangeOp"
       /\ NameChangeKernelFor(c.op, DT_BFLOAT16)

====
